---------------------------- MODULE Spec2Model ----------------------------
(***************************************************************************)
(* Model of the route optimizer of src/optimasirute.py: the route          *)
(* evaluator calculate_route_metrics and the driver genetic_algorithm.     *)
(*                                                                         *)
(* Units.  calculate_distance returns kilometres as a float; the model     *)
(* keeps unrounded distances in metres and unrounded durations in 1/10000  *)
(* of a minute.  round(x, 1) yields tenths of a kilometre / of a minute.   *)
(* Identifiers are sequences of characters, so that str.startswith and the *)
(* f-string key "{from}-{to}" are computed, not looked up.                 *)
(***************************************************************************)
EXTENDS Integers, Sequences, FiniteSets

(***************************************************************************)
(* Bounds of the model.  The program runs POPULATION_SIZE = 100,           *)
(* GENERATIONS = 300 and tournaments of 5; the model runs the same code    *)
(* with smaller numbers.                                                   *)
(***************************************************************************)
POPULATION_SIZE == 3
GENERATIONS == 2
TOURNAMENT_SIZE == 2
MaxStatus == 3
MaxGenes == 4

\* Program constants (src/optimasirute.py:26-32, 123, 138).
ELITISM_COUNT == 2
INF == 999999
INF_FITNESS == 2147483647
FIT_SCALE == 100000000

\* ---------------------------------------------------------------- names
DEPOT_NAME == <<"D","E","P","O">>
TPA_NAME == <<"T","P","A","_","S","A","R","I","M","U","K","T","I">>
TPS_PREFIX == <<"T","P","S","_">>
TPS_DAGO == <<"T","P","S","_","D","A","G","O">>
TPS_ANTAPANI == <<"T","P","S","_","A","N","T","A","P","A","N","I">>
TPS_CICADAS == <<"T","P","S","_","C","I","C","A","D","A","S">>
\* identifiers a caller may send that the location table does not hold
TPS_GHOST == <<"T","P","S","_","G","H","O","S","T">>
LOWER_DAGO == <<"t","p","s","_","d","a","g","o">>

\* LOCATIONS (five of its twelve entries), coordinates in microdegrees.
LOCATIONS ==
  [id \in {DEPOT_NAME, TPS_DAGO, TPS_ANTAPANI, TPS_CICADAS, TPA_NAME} |->
     CASE id = DEPOT_NAME   -> <<-6890683, 107625395>>
       [] id = TPS_DAGO     -> <<-6883993, 107613144>>
       [] id = TPS_ANTAPANI -> <<-6903444, 107660000>>
       [] id = TPS_CICADAS  -> <<-6903889, 107646389>>
       [] id = TPA_NAME     -> <<-6800449, 107349291>>]

\* geodesic(p, q).km on the WGS-84 ellipsoid for the coordinates above, in
\* metres.
GeodesicTable ==
  { <<LOCATIONS[DEPOT_NAME], LOCATIONS[TPS_DAGO], 1543>>,
    <<LOCATIONS[DEPOT_NAME], LOCATIONS[TPS_ANTAPANI], 4077>>,
    <<LOCATIONS[DEPOT_NAME], LOCATIONS[TPS_CICADAS], 2742>>,
    <<LOCATIONS[DEPOT_NAME], LOCATIONS[TPA_NAME], 32108>>,
    <<LOCATIONS[TPS_DAGO], LOCATIONS[TPS_ANTAPANI], 5608>>,
    <<LOCATIONS[TPS_DAGO], LOCATIONS[TPS_CICADAS], 4283>>,
    <<LOCATIONS[TPS_DAGO], LOCATIONS[TPA_NAME], 30593>>,
    <<LOCATIONS[TPS_ANTAPANI], LOCATIONS[TPS_CICADAS], 1505>>,
    <<LOCATIONS[TPS_ANTAPANI], LOCATIONS[TPA_NAME], 36182>>,
    <<LOCATIONS[TPS_CICADAS], LOCATIONS[TPA_NAME], 34774>> }

\* the table read in either direction; a point is at distance 0 from itself
GeodesicKm ==
  [p \in { LOCATIONS[id] : id \in DOMAIN LOCATIONS },
   q \in { LOCATIONS[id] : id \in DOMAIN LOCATIONS } |->
     IF p = q THEN 0
     ELSE (CHOOSE t \in GeodesicTable :
              \/ t[1] = p /\ t[2] = q
              \/ t[1] = q /\ t[2] = p)[3]]

calculate_distance(point1_coords, point2_coords) ==
  GeodesicKm[point1_coords, point2_coords]

\* ------------------------------------------------------------- helpers
\* Python round(x, ndigits): to the nearest multiple of unit, ties to even.
Round(x, unit) ==
  LET q == x \div unit
      r == x % unit
  IN  IF 2 * r < unit THEN q
      ELSE IF 2 * r > unit THEN q + 1
      ELSE IF q % 2 = 0 THEN q ELSE q + 1

\* str.startswith
StartsWith(s, prefix) ==
  /\ Len(s) >= Len(prefix)
  /\ SubSeq(s, 1, Len(prefix)) = prefix

\* f"{from_point}-{to_point}"
TrafficKey(from_point, to_point) == from_point \o <<"-">> \o to_point

\* the permutations of 1..n, as sequences
Perms(n) == { s \in [1..n -> 1..n] : \A i, j \in 1..n : i # j => s[i] # s[j] }

IsPermutation(s, n) ==
  /\ Len(s) = n
  /\ \A g \in 1..n : Cardinality({ i \in 1..Len(s) : s[i] = g }) = 1

\* ------------------------------------------------------ route evaluator
\* the two factors exchanged
TrafficFactor_Swapped(traffic_level) ==
  IF traffic_level = "Heavy" THEN 12
  ELSE IF traffic_level = "Moderate" THEN 15 ELSE 10

\* 1.5 if Heavy, 1.2 if Moderate, else 1.0 -- in tenths
TrafficFactor(traffic_level) ==
  IF traffic_level = "Heavy" THEN 15
  ELSE IF traffic_level = "Moderate" THEN 12 ELSE 10

\* traffic_conditions.get(key, "Light") behind the guard of lines 85-86
TrafficLevel(from_point, to_point, consider, conditions) ==
  IF consider /\ DOMAIN conditions # {}
  THEN IF TrafficKey(from_point, to_point) \in DOMAIN conditions
       THEN conditions[TrafficKey(from_point, to_point)]
       ELSE "Light"
  ELSE "Light"

\* segment_duration, unrounded: base_distance * 2, times the factor when
\* traffic is looked up
SegmentDuration(from_point, to_point, consider, conditions) ==
  LET base_distance == calculate_distance(LOCATIONS[from_point], LOCATIONS[to_point])
      segment_duration == base_distance * 2 * 10
  IN  IF consider /\ DOMAIN conditions # {}
      THEN (segment_duration *
              TrafficFactor(TrafficLevel(from_point, to_point, consider, conditions))) \div 10
      ELSE segment_duration

Segment(from_point, to_point, consider, conditions) ==
  [from |-> from_point,
   to |-> to_point,
   distance_km |->
     Round(calculate_distance(LOCATIONS[from_point], LOCATIONS[to_point]), 100),
   traffic_level |-> TrafficLevel(from_point, to_point, consider, conditions),
   estimated_time_minutes |->
     Round(SegmentDuration(from_point, to_point, consider, conditions), 1000)]

RECURSIVE SumDistance(_, _)
SumDistance(route, i) ==
  IF i >= Len(route) THEN 0
  ELSE calculate_distance(LOCATIONS[route[i]], LOCATIONS[route[i + 1]])
         + SumDistance(route, i + 1)

RECURSIVE SumDuration(_, _, _, _)
SumDuration(route, i, consider, conditions) ==
  IF i >= Len(route) THEN 0
  ELSE SegmentDuration(route[i], route[i + 1], consider, conditions)
         + SumDuration(route, i + 1, consider, conditions)

\* returns <<route_segments, round(total_distance, 1), round(total_duration, 1)>>
calculate_route_metrics(route, consider, conditions) ==
  << [i \in 1..(Len(route) - 1) |->
        Segment(route[i], route[i + 1], consider, conditions)],
     Round(SumDistance(route, 1), 100),
     Round(SumDuration(route, 1, consider, conditions), 1000) >>

\* ------------------------------------------------------------- inputs
\* the identifiers a request may hold, in the order requests list them
Catalogue == <<TPS_DAGO, TPS_ANTAPANI, TPS_CICADAS, TPS_GHOST, LOWER_DAGO>>

StopIds == { Catalogue[i] : i \in 1..Len(Catalogue) }

CataloguePos(id) == CHOOSE i \in 1..Len(Catalogue) : Catalogue[i] = id

\* tps_status: a dict, i.e. distinct keys in insertion order; up to MaxStatus
\* entries, inserted in catalogue order
StatusInputs ==
  UNION { { s \in [1..k -> [tps_id : StopIds, is_full : BOOLEAN]] :
              \A i, j \in 1..k :
                 i < j => CataloguePos(s[i].tps_id) < CataloguePos(s[j].tps_id) } :
          k \in 0..MaxStatus }

EmptyTraffic == [k \in {} |-> "Light"]

SampleTraffic ==
  [k \in { TrafficKey(DEPOT_NAME, TPS_DAGO), TrafficKey(TPS_DAGO, TPS_CICADAS),
           TrafficKey(TPS_CICADAS, TPA_NAME), TrafficKey(TPS_DAGO, TPA_NAME),
           TrafficKey(TPS_ANTAPANI, TPA_NAME) } |->
     CASE k = TrafficKey(DEPOT_NAME, TPS_DAGO) -> "Heavy"
       [] k = TrafficKey(TPS_DAGO, TPS_CICADAS) -> "Moderate"
       [] k = TrafficKey(TPS_CICADAS, TPA_NAME) -> "Light"
       [] k = TrafficKey(TPS_DAGO, TPA_NAME) -> "Moderate"
       [] k = TrafficKey(TPS_ANTAPANI, TPA_NAME) -> "Heavy"]

\* <<consider_traffic, traffic_conditions>> as optimize_route passes them: the
\* lookup stays {} unless traffic is considered
TrafficInputs == { <<FALSE, EmptyTraffic>>, <<TRUE, SampleTraffic>> }

\* -------------------------------------------------------------- state
VARIABLES
  tps_status, consider_traffic, traffic_conditions,   \* arguments
  pc,                  \* position in genetic_algorithm
  tps_full, route_points,
  population, fitness_scores, generation,
  best_route, best_distance, best_duration, best_segments,
  next_gen, parent1, parent2, child,
  result,              \* the returned tuple
  error,               \* the exception raised, "" if none
  min_evaluated,       \* history: the lowest distance of any evaluation so far
  prev_best_fitness,   \* history: max(fitness_scores) of the generation before
  heap,                \* the live list objects: reference -> list of genes
  population_ref, next_gen_ref,          \* references to lists of references
  parent1_ref, parent2_ref, child_ref,   \* references to lists of genes
  best_route_ref       \* reference, NoRef while best_route is None

args == <<tps_status, consider_traffic, traffic_conditions>>
best == <<best_route, best_distance, best_duration, best_segments>>
breed == <<parent1, parent2, child>>
refs == <<heap, population_ref, next_gen_ref, parent1_ref, parent2_ref,
          child_ref, best_route_ref>>
vars == <<tps_status, consider_traffic, traffic_conditions, pc, tps_full,
          route_points, population, fitness_scores, generation, best_route,
          best_distance, best_duration, best_segments, next_gen, parent1,
          parent2, child, result, error, min_evaluated, prev_best_fitness,
          heap, population_ref, next_gen_ref, parent1_ref, parent2_ref,
          child_ref, best_route_ref>>

\* best_route = None
None == <<0>>

\* the reference that stands for None
NoRef == 0

\* no live list
EmptyHeap == [a \in {} |-> <<>>]

\* the reference variables while no list has been built
NoRefs ==
  /\ heap = EmptyHeap
  /\ population_ref = NoRef
  /\ next_gen_ref = NoRef
  /\ parent1_ref = NoRef
  /\ parent2_ref = NoRef
  /\ child_ref = NoRef
  /\ best_route_ref = NoRef

\* ----------------------------------------------------- driver helpers
\* the is_full test left out
IsFullTps_IgnoreFlag(e) == StartsWith(e.tps_id, TPS_PREFIX)

IsFullTps(e) == e.is_full /\ StartsWith(e.tps_id, TPS_PREFIX)

\* [tps_id for tps_id, is_full in tps_status.items()
\*    if is_full and tps_id.startswith("TPS_")]
TpsFull(status) ==
  LET sel == SelectSeq(status, IsFullTps)
  IN  [i \in 1..Len(sel) |-> sel[i].tps_id]

\* the skeleton evaluated in place of the individual
RouteNames_Skeleton(route, points) == points

\* [route_points[i] for i in [0] + route + [len(route_points) - 1]]
RouteNames(route, points) ==
  LET full_route == <<0>> \o route \o <<Len(points) - 1>>
  IN  [k \in 1..Len(full_route) |-> points[full_route[k] + 1]]

\* 1.0 / distance if distance > 0 else float('inf'), as a fixed-point number
Fitness(distance) ==
  IF distance > 0 THEN FIT_SCALE \div distance ELSE INF_FITNESS

MaxOf(S) == CHOOSE x \in S : \A y \in S : y <= x

\* reverse=True left out: ascending fitness
Rank_Ascending(scores, i) ==
  Cardinality({ j \in 1..Len(scores) :
                  \/ scores[j] < scores[i]
                  \/ scores[j] = scores[i] /\ j < i })

\* position of index i in sorted(range(len(scores)), key=scores, reverse=True):
\* the sort is stable, equal scores keep their index order
Rank(scores, i) ==
  Cardinality({ j \in 1..Len(scores) :
                  \/ scores[j] > scores[i]
                  \/ scores[j] = scores[i] /\ j < i })

\* sorted(...)[:ELITISM_COUNT]
EliteIndices(scores) ==
  LET m == IF Len(scores) < ELITISM_COUNT THEN Len(scores) ELSE ELITISM_COUNT
  IN  [k \in 1..m |-> CHOOSE i \in 1..Len(scores) : Rank(scores, i) = k - 1]

\* max(sample, key=fitness): the first maximal index of the sample, and the
\* sample comes in random order
TournamentWinners(scores, sample) ==
  { i \in sample : \A j \in sample : scores[j] <= scores[i] }

\* for gene in parent2: if gene not in child: child.append(gene)
RECURSIVE AppendMissing(_, _, _)
AppendMissing(c, p2, i) ==
  IF i > Len(p2) THEN c
  ELSE IF \E k \in 1..Len(c) : c[k] = p2[i]
       THEN AppendMissing(c, p2, i + 1)
       ELSE AppendMissing(Append(c, p2[i]), p2, i + 1)

\* the `if gene not in child` test left out
CrossoverChild_NoSkip(p1, p2, crossover_point) ==
  SubSeq(p1, 1, crossover_point) \o p2

CrossoverChild(p1, p2, crossover_point) ==
  AppendMissing(SubSeq(p1, 1, crossover_point), p2, 1)

\* child[i] = child[j] without the exchange
Swap_Overwrite(c, i, j) == [c EXCEPT ![i] = c[j]]

\* child[i], child[j] = child[j], child[i]
Swap(c, i, j) == [c EXCEPT ![i] = c[j], ![j] = c[i]]

\* lines 156-157: the individuals two tournaments of TOURNAMENT_SIZE distinct
\* indices can select
TournamentParents(pop, scores) ==
  { pop[w] : w \in UNION { TournamentWinners(scores, sample) :
                             sample \in { x \in SUBSET (1..Len(pop)) :
                                            Cardinality(x) = TOURNAMENT_SIZE } } }

\* lines 160-167: random.randint(1, len(parent1) - 1) raises ValueError on an
\* empty range
CrossoverRaises(p1) == Len(p1) - 1 < 1

\* lines 160-167: the children the step can leave, with or without crossover
CrossoverChildren(p1, p2) ==
  {p1} \cup { CrossoverChild(p1, p2, crossover_point) :
                 crossover_point \in 1..(Len(p1) - 1) }

\* lines 170-171: random.sample(range(len(child)), 2) raises ValueError when
\* the child has fewer than two genes
MutationRaises(c) == Len(c) < 2

\* lines 170-172: the children the step can leave, with or without mutation
MutationChildren(c) ==
  {c} \cup { Swap(c, ij[1], ij[2]) :
               ij \in { x \in (1..Len(c)) \X (1..Len(c)) : x[1] # x[2] } }

\* <= in place of <
IsBetter_OrEqual(distance, best_so_far) == distance <= best_so_far

\* line 140: if distance < best_distance
IsBetter(distance, best_so_far) == distance < best_so_far

\* ------------------------------------------------------------- actions
Init ==
  /\ tps_status \in StatusInputs
  /\ \E t \in TrafficInputs : consider_traffic = t[1] /\ traffic_conditions = t[2]
  /\ pc = "start"
  /\ tps_full = <<>>
  /\ route_points = <<>>
  /\ population = <<>>
  /\ fitness_scores = <<>>
  /\ generation = 0
  /\ best_route = None
  /\ best_distance = INF
  /\ best_duration = 0
  /\ best_segments = <<>>
  /\ next_gen = <<>>
  /\ parent1 = <<>>
  /\ parent2 = <<>>
  /\ child = <<>>
  /\ result = <<>>
  /\ error = ""
  /\ min_evaluated = INF
  /\ prev_best_fitness = 0
  /\ NoRefs

\* lines 105-113: filter the full stops, return early, look the points up
Start ==
  /\ pc = "start"
  /\ LET full == TpsFull(tps_status)
         points == <<DEPOT_NAME>> \o full \o <<TPA_NAME>>
     IN  IF full = <<>>
         THEN /\ pc' = "returned"
              /\ result' = << <<>>, 0, 0 >>
              /\ UNCHANGED <<tps_full, route_points, error>>
         ELSE /\ tps_full' = full
              /\ route_points' = points
              /\ IF \E i \in 1..Len(points) : points[i] \notin DOMAIN LOCATIONS
                 THEN pc' = "raised" /\ error' = "KeyError"
                 ELSE pc' = "init_population" /\ error' = error
              /\ result' = result
  /\ UNCHANGED <<args, refs, population, fitness_scores, generation, best, next_gen,
                 breed, min_evaluated, prev_best_fitness>>

\* lines 115-125: POPULATION_SIZE shuffled routes, the empty best record
InitPopulation ==
  /\ pc = "init_population"
  /\ population' \in [1..POPULATION_SIZE -> Perms(Len(tps_full))]
  /\ best_route' = None
  /\ best_distance' = INF
  /\ best_duration' = 0
  /\ best_segments' = <<>>
  /\ generation' = 0
  /\ fitness_scores' = <<>>
  /\ pc' = IF GENERATIONS > 0 THEN "evaluate" ELSE "return"
  /\ UNCHANGED <<args, refs, tps_full, route_points, next_gen, breed, result, error,
                 min_evaluated, prev_best_fitness>>

\* lines 130-144, one iteration of `for route in population`, on the record
\* of the loop's variables
EvaluateOne(rec, route) ==
  LET m == calculate_route_metrics(RouteNames(route, route_points),
                                   consider_traffic, traffic_conditions)
      segments == m[1]
      distance == m[2]
      duration == m[3]
      better == IsBetter(distance, rec.best_distance)
  IN  [fitness_scores |-> Append(rec.fitness_scores, Fitness(distance)),
       best_route |-> IF better THEN route ELSE rec.best_route,
       best_distance |-> IF better THEN distance ELSE rec.best_distance,
       best_duration |-> IF better THEN duration ELSE rec.best_duration,
       best_segments |-> IF better THEN segments ELSE rec.best_segments,
       min_evaluated |-> IF distance < rec.min_evaluated
                         THEN distance ELSE rec.min_evaluated]

RECURSIVE EvaluateFrom(_, _)
EvaluateFrom(rec, i) ==
  IF i > Len(population) THEN rec
  ELSE EvaluateFrom(EvaluateOne(rec, population[i]), i + 1)

\* lines 128-144: the fitness of every individual, the best-found record
Evaluate ==
  /\ pc = "evaluate"
  /\ LET rec == EvaluateFrom([fitness_scores |-> <<>>,
                              best_route |-> best_route,
                              best_distance |-> best_distance,
                              best_duration |-> best_duration,
                              best_segments |-> best_segments,
                              min_evaluated |-> min_evaluated], 1)
     IN  /\ fitness_scores' = rec.fitness_scores
         /\ best_route' = rec.best_route
         /\ best_distance' = rec.best_distance
         /\ best_duration' = rec.best_duration
         /\ best_segments' = rec.best_segments
         /\ min_evaluated' = rec.min_evaluated
  /\ pc' = "elitism"
  /\ UNCHANGED <<args, refs, tps_full, route_points, population, generation,
                 next_gen, breed, result, error, prev_best_fitness>>

\* lines 147-151: the elites are copied into the new next_gen
Elitism ==
  /\ pc = "elitism"
  /\ LET elite_indices == EliteIndices(fitness_scores)
     IN  next_gen' = [k \in 1..Len(elite_indices) |-> population[elite_indices[k]]]
  /\ pc' = "fill"
  /\ UNCHANGED <<args, refs, tps_full, route_points, population, fitness_scores,
                 generation, best, breed, result, error, min_evaluated,
                 prev_best_fitness>>

\* lines 154-174, one iteration of the fill loop: two tournaments, crossover,
\* mutation, append; or the ValueError of random.sample / random.randint
Breed ==
  /\ pc = "fill"
  /\ Len(next_gen) < POPULATION_SIZE
  /\ IF TOURNAMENT_SIZE > Len(population)
     THEN pc' = "raised" /\ error' = "ValueError" /\ next_gen' = next_gen
     ELSE LET parents == TournamentParents(population, fitness_scores)
              crossed == UNION { CrossoverChildren(p1, p2) : p1 \in parents, p2 \in parents }
              mutated == UNION { MutationChildren(c) : c \in crossed }
          IN  \/ /\ \E c \in mutated : next_gen' = Append(next_gen, c)
                 /\ pc' = "fill"
                 /\ error' = error
              \/ /\ \/ \E p1 \in parents : CrossoverRaises(p1)
                    \/ \E c \in crossed : MutationRaises(c)
                 /\ pc' = "raised"
                 /\ error' = "ValueError"
                 /\ next_gen' = next_gen
  /\ UNCHANGED <<args, refs, tps_full, route_points, population, fitness_scores,
                 generation, best, breed, result, min_evaluated,
                 prev_best_fitness>>

\* line 176, then the loop head of line 127
NextPopulation ==
  /\ pc = "fill"
  /\ Len(next_gen) >= POPULATION_SIZE
  /\ population' = next_gen
  /\ next_gen' = <<>>
  /\ fitness_scores' = <<>>
  /\ generation' = generation + 1
  /\ prev_best_fitness' = MaxOf({ fitness_scores[i] : i \in 1..Len(fitness_scores) })
  /\ pc' = IF generation + 1 < GENERATIONS THEN "evaluate" ELSE "return"
  /\ UNCHANGED <<args, refs, tps_full, route_points, best, breed, result, error,
                 min_evaluated>>

\* lines 178-182
Return ==
  /\ pc = "return"
  /\ result' = IF best_route # None
               THEN <<best_segments, best_distance, best_duration>>
               ELSE << <<>>, 0, 0 >>
  /\ pc' = "returned"
  /\ UNCHANGED <<args, refs, tps_full, route_points, population, fitness_scores,
                 generation, best, next_gen, breed, error, min_evaluated,
                 prev_best_fitness>>

Next ==
  \/ Start
  \/ InitPopulation
  \/ Evaluate
  \/ Elitism
  \/ Breed
  \/ NextPopulation
  \/ Return

Spec == Init /\ [][Next]_vars

TypeOK ==
  /\ pc \in {"start", "init_population", "evaluate", "elitism", "fill", "return",
             "returned", "raised"}
  /\ generation \in 0..GENERATIONS
  /\ error \in {"", "KeyError", "ValueError"}

\* The crossover step on its own: lines 159-167 applied to any two parent
\* permutations of 1..n, n up to MaxGenes.
Crossover ==
  /\ pc = "crossover"
  /\ \/ /\ child' \in CrossoverChildren(parent1, parent2)
        /\ pc' = "mutation"
        /\ error' = error
     \/ /\ CrossoverRaises(parent1)
        /\ pc' = "raised"
        /\ error' = "ValueError"
        /\ child' = child
  /\ UNCHANGED <<args, refs, tps_full, route_points, population, fitness_scores,
                 generation, best, next_gen, parent1, parent2, result,
                 min_evaluated, prev_best_fitness>>

InitCrossover ==
  /\ tps_status = <<>>
  /\ consider_traffic = FALSE
  /\ traffic_conditions = EmptyTraffic
  /\ pc = "crossover"
  /\ tps_full = <<>>
  /\ route_points = <<>>
  /\ population = <<>>
  /\ fitness_scores = <<>>
  /\ generation = 0
  /\ best_route = None
  /\ best_distance = INF
  /\ best_duration = 0
  /\ best_segments = <<>>
  /\ next_gen = <<>>
  /\ \E n \in 1..MaxGenes : parent1 \in Perms(n) /\ parent2 \in Perms(n)
  /\ child = <<>>
  /\ result = <<>>
  /\ error = ""
  /\ min_evaluated = INF
  /\ prev_best_fitness = 0
  /\ NoRefs

NextCrossover == Crossover

SpecCrossover == InitCrossover /\ [][NextCrossover]_vars

\* ------------------------------------------------- lists as objects
\* Lines 115-176 again, with every Python list an object of the heap.
\* population and next_gen refer to lists of references, the parents, the
\* child and best_route refer to lists of genes.  A slice and [] build a new
\* object; extend, append and child[i], child[j] = ... write into an
\* existing one; an assignment copies a reference.  Objects nothing refers
\* to any more are dropped, as the interpreter's reference counts drop them.

\* the references a list of references holds
RefSet(r) == { r[i] : i \in 1..Len(r) }

\* the reference of the next object built
FreshRef(h) ==
  CHOOSE a \in 1..(Cardinality(DOMAIN h) + 1) :
    /\ a \notin DOMAIN h
    /\ \A b \in 1..(a - 1) : b \in DOMAIN h

\* a new list object holding v
NewList(h, v) ==
  LET a == FreshRef(h)
  IN  [heap |-> [x \in DOMAIN h \cup {a} |-> IF x = a THEN v ELSE h[x]],
       ref |-> a]

\* the [:] left out: the same object under another name
SliceCopy_Alias(h, a) == [heap |-> h, ref |-> a]

\* population[i][:], parent1[:]: a new list object with the same genes
SliceCopy(h, a) == NewList(h, h[a])

\* the objects still referred to: by a variable, or through the list of
\* references a variable of `outer` refers to
Collect(h, outer, inner) ==
  LET keep == outer \cup inner
                \cup UNION { RefSet(h[o]) : o \in outer \cap DOMAIN h }
  IN  [a \in keep \cap DOMAIN h |-> h[a]]

\* full stops of the location table, every one flagged full
RefInputs ==
  { s \in StatusInputs :
      /\ Len(s) >= 1
      /\ \A i \in 1..Len(s) :
           /\ s[i].is_full
           /\ StartsWith(s[i].tps_id, TPS_PREFIX)
           /\ s[i].tps_id \in DOMAIN LOCATIONS }

\* two of the orders random.shuffle can leave list(range(1, n + 1)) in: as
\* built and reversed
ShuffleSamples(n) == { [i \in 1..n |-> i], [i \in 1..n |-> n + 1 - i] }

\* lines 105-125: the state at the head of the generational loop, every
\* shuffled route a list object of its own, next_gen not bound yet
InitRefs ==
  /\ tps_status \in RefInputs
  /\ consider_traffic = FALSE
  /\ traffic_conditions = EmptyTraffic
  /\ tps_full = TpsFull(tps_status)
  /\ route_points = <<DEPOT_NAME>> \o tps_full \o <<TPA_NAME>>
  /\ \E routes \in [1..POPULATION_SIZE -> ShuffleSamples(Len(tps_full))] :
       heap = [a \in 1..(POPULATION_SIZE + 1) |->
                 IF a <= POPULATION_SIZE THEN routes[a]
                 ELSE [i \in 1..POPULATION_SIZE |-> i]]
  /\ population_ref = POPULATION_SIZE + 1
  /\ next_gen_ref = NoRef
  /\ parent1_ref = NoRef
  /\ parent2_ref = NoRef
  /\ child_ref = NoRef
  /\ best_route_ref = NoRef
  /\ pc = IF GENERATIONS > 0 THEN "evaluate" ELSE "return"
  /\ population = <<>>
  /\ fitness_scores = <<>>
  /\ generation = 0
  /\ best_route = None
  /\ best_distance = INF
  /\ best_duration = 0
  /\ best_segments = <<>>
  /\ next_gen = <<>>
  /\ parent1 = <<>>
  /\ parent2 = <<>>
  /\ child = <<>>
  /\ result = <<>>
  /\ error = ""
  /\ min_evaluated = INF
  /\ prev_best_fitness = 0

\* lines 130-144 over the objects of the population; line 141 stores the
\* reference of the individual, not a copy
RECURSIVE EvaluateRefsFrom(_, _, _)
EvaluateRefsFrom(rec, ref, i) ==
  IF i > Len(heap[population_ref]) THEN [rec |-> rec, best_route_ref |-> ref]
  ELSE LET a == heap[population_ref][i]
           m == calculate_route_metrics(RouteNames(heap[a], route_points),
                                        consider_traffic, traffic_conditions)
       IN  EvaluateRefsFrom(EvaluateOne(rec, heap[a]),
                            IF IsBetter(m[2], rec.best_distance) THEN a ELSE ref,
                            i + 1)

\* lines 128-144
EvaluateRefs ==
  /\ pc = "evaluate"
  /\ LET out == EvaluateRefsFrom([fitness_scores |-> <<>>,
                                  best_route |-> best_route,
                                  best_distance |-> best_distance,
                                  best_duration |-> best_duration,
                                  best_segments |-> best_segments,
                                  min_evaluated |-> min_evaluated],
                                 best_route_ref, 1)
     IN  /\ fitness_scores' = out.rec.fitness_scores
         /\ best_distance' = out.rec.best_distance
         /\ best_duration' = out.rec.best_duration
         /\ best_segments' = out.rec.best_segments
         /\ min_evaluated' = out.rec.min_evaluated
         /\ best_route_ref' = out.best_route_ref
         /\ heap' = Collect(heap, {population_ref, next_gen_ref},
                            {parent1_ref, parent2_ref, child_ref,
                             out.best_route_ref})
  /\ pc' = "elitism"
  /\ UNCHANGED <<args, tps_full, route_points, population, generation,
                 best_route, next_gen, breed, result, error, prev_best_fitness,
                 population_ref, next_gen_ref, parent1_ref, parent2_ref,
                 child_ref>>

\* [population[i][:] for i in elite_indices]
RECURSIVE CopyEach(_, _, _, _)
CopyEach(h, from, k, acc) ==
  IF k > Len(from) THEN [heap |-> h, copies |-> acc]
  ELSE LET c == SliceCopy(h, from[k])
       IN  CopyEach(c.heap, from, k + 1, Append(acc, c.ref))

\* lines 147-151: next_gen = [] binds a new list, extend writes the copies
\* of the elites into it
ElitismRefs ==
  /\ pc = "elitism"
  /\ LET elite_indices == EliteIndices(fitness_scores)
         elites == [k \in 1..Len(elite_indices) |->
                      heap[population_ref][elite_indices[k]]]
         fresh == NewList(heap, <<>>)
         out == CopyEach(fresh.heap, elites, 1, <<>>)
         extended == [out.heap EXCEPT ![fresh.ref] = @ \o out.copies]
     IN  /\ next_gen_ref' = fresh.ref
         /\ heap' = Collect(extended, {population_ref, fresh.ref},
                            {parent1_ref, parent2_ref, child_ref, best_route_ref})
  /\ pc' = "select"
  /\ UNCHANGED <<args, tps_full, route_points, population, fitness_scores,
                 generation, best, next_gen, breed, result, error,
                 min_evaluated, prev_best_fitness, population_ref,
                 parent1_ref, parent2_ref, child_ref, best_route_ref>>

\* lines 154-157: the loop test and the two tournaments, each winner sliced
SelectRefs ==
  /\ pc = "select"
  /\ Len(heap[next_gen_ref]) < POPULATION_SIZE
  /\ IF TOURNAMENT_SIZE > Len(heap[population_ref])
     THEN /\ pc' = "raised"
          /\ error' = "ValueError"
          /\ UNCHANGED <<heap, parent1_ref, parent2_ref>>
     ELSE /\ \E w1 \in TournamentParents(heap[population_ref], fitness_scores) :
             \E w2 \in TournamentParents(heap[population_ref], fitness_scores) :
               LET c1 == SliceCopy(heap, w1)
                   c2 == SliceCopy(c1.heap, w2)
               IN  /\ parent1_ref' = c1.ref
                   /\ parent2_ref' = c2.ref
                   /\ heap' = Collect(c2.heap, {population_ref, next_gen_ref},
                                      {c1.ref, c2.ref, child_ref, best_route_ref})
          /\ pc' = "crossover"
          /\ error' = error
  /\ UNCHANGED <<args, tps_full, route_points, population, fitness_scores,
                 generation, best, next_gen, breed, result, min_evaluated,
                 prev_best_fitness, population_ref, next_gen_ref, child_ref,
                 best_route_ref>>

\* lines 159-167: the child is a new list, parent1[:crossover_point] filled
\* from parent2, or parent1[:]
CrossoverRefs ==
  /\ pc = "crossover"
  /\ \/ /\ ~CrossoverRaises(heap[parent1_ref])
        /\ \E crossover_point \in 1..(Len(heap[parent1_ref]) - 1) :
             LET c == NewList(heap, CrossoverChild(heap[parent1_ref],
                                                   heap[parent2_ref],
                                                   crossover_point))
             IN  /\ child_ref' = c.ref
                 /\ heap' = Collect(c.heap, {population_ref, next_gen_ref},
                                    {parent1_ref, parent2_ref, c.ref,
                                     best_route_ref})
        /\ pc' = "mutation"
        /\ error' = error
     \/ /\ LET c == SliceCopy(heap, parent1_ref)
           IN  /\ child_ref' = c.ref
               /\ heap' = Collect(c.heap, {population_ref, next_gen_ref},
                                  {parent1_ref, parent2_ref, c.ref,
                                   best_route_ref})
        /\ pc' = "mutation"
        /\ error' = error
     \/ /\ CrossoverRaises(heap[parent1_ref])
        /\ pc' = "raised"
        /\ error' = "ValueError"
        /\ UNCHANGED <<heap, child_ref>>
  /\ UNCHANGED <<args, tps_full, route_points, population, fitness_scores,
                 generation, best, next_gen, breed, result, min_evaluated,
                 prev_best_fitness, population_ref, next_gen_ref, parent1_ref,
                 parent2_ref, best_route_ref>>

\* lines 169-172: the swap writes into the object child refers to
MutationRefs ==
  /\ pc = "mutation"
  /\ \/ /\ ~MutationRaises(heap[child_ref])
        /\ \E i \in 1..Len(heap[child_ref]) :
           \E j \in 1..Len(heap[child_ref]) :
             /\ i # j
             /\ heap' = [heap EXCEPT ![child_ref] = Swap(@, i, j)]
        /\ pc' = "append"
        /\ error' = error
     \/ /\ pc' = "append"
        /\ error' = error
        /\ heap' = heap
     \/ /\ MutationRaises(heap[child_ref])
        /\ pc' = "raised"
        /\ error' = "ValueError"
        /\ heap' = heap
  /\ UNCHANGED <<args, tps_full, route_points, population, fitness_scores,
                 generation, best, next_gen, breed, result, min_evaluated,
                 prev_best_fitness, population_ref, next_gen_ref, parent1_ref,
                 parent2_ref, child_ref, best_route_ref>>

\* line 174: next_gen.append(child) writes the reference into the list
\* next_gen refers to
AppendRefs ==
  /\ pc = "append"
  /\ heap' = [heap EXCEPT ![next_gen_ref] = Append(@, child_ref)]
  /\ pc' = "select"
  /\ UNCHANGED <<args, tps_full, route_points, population, fitness_scores,
                 generation, best, next_gen, breed, result, error,
                 min_evaluated, prev_best_fitness, population_ref,
                 next_gen_ref, parent1_ref, parent2_ref, child_ref,
                 best_route_ref>>

\* line 176, then the loop head of line 127: population refers to the list
\* next_gen refers to, the old population is dropped
NextPopulationRefs ==
  /\ pc = "select"
  /\ Len(heap[next_gen_ref]) >= POPULATION_SIZE
  /\ population_ref' = next_gen_ref
  /\ heap' = Collect(heap, {next_gen_ref},
                     {parent1_ref, parent2_ref, child_ref, best_route_ref})
  /\ generation' = generation + 1
  /\ prev_best_fitness' = MaxOf({ fitness_scores[i] : i \in 1..Len(fitness_scores) })
  /\ pc' = IF generation + 1 < GENERATIONS THEN "evaluate" ELSE "return"
  /\ UNCHANGED <<args, tps_full, route_points, population, fitness_scores,
                 best, next_gen, breed, result, error, min_evaluated,
                 next_gen_ref, parent1_ref, parent2_ref, child_ref,
                 best_route_ref>>

\* lines 178-182
ReturnRefs ==
  /\ pc = "return"
  /\ result' = IF best_route_ref # NoRef
               THEN <<best_segments, best_distance, best_duration>>
               ELSE << <<>>, 0, 0 >>
  /\ pc' = "returned"
  /\ UNCHANGED <<args, refs, tps_full, route_points, population, fitness_scores,
                 generation, best, next_gen, breed, error, min_evaluated,
                 prev_best_fitness>>

NextRefs ==
  \/ EvaluateRefs
  \/ ElitismRefs
  \/ SelectRefs
  \/ CrossoverRefs
  \/ MutationRefs
  \/ AppendRefs
  \/ NextPopulationRefs
  \/ ReturnRefs

SpecRefs == InitRefs /\ [][NextRefs]_vars

\* ------------------------------------------------- vocabulary of the claims
\* the entries of tps_status the caller flags as full
FullIds == { tps_status[i].tps_id : i \in { j \in 1..Len(tps_status) : tps_status[j].is_full } }

\* every flagged stop is a TPS_ key of the location table
ValidStops == \A id \in FullIds : id \in DOMAIN LOCATIONS /\ StartsWith(id, TPS_PREFIX)

\* depot, the stops in the order of the individual o, disposal site
StopNames(o) == <<DEPOT_NAME>> \o [i \in 1..Len(o) |-> tps_full[o[i]]] \o <<TPA_NAME>>

Leg(a, b) == calculate_distance(LOCATIONS[a], LOCATIONS[b])

RECURSIVE TotalMetres(_)
TotalMetres(names) ==
  IF Len(names) < 2 THEN 0 ELSE Leg(names[1], names[2]) + TotalMetres(Tail(names))

\* the segments of a route when every leg is Light
LightSegments(names) ==
  [i \in 1..(Len(names) - 1) |->
     [from |-> names[i], to |-> names[i + 1],
      distance_km |-> Round(Leg(names[i], names[i + 1]), 100),
      traffic_level |-> "Light",
      estimated_time_minutes |-> Round(Leg(names[i], names[i + 1]) * 20, 1000)]]

\* ---------------------------------------------------------------- claims

\* C1: every individual of the population is a permutation of 1..n, n the
\* number of full stops, and its materialized route visits every full stop
\* exactly once with the depot first and the disposal site last.
C1_PermutationValidity ==
  \A k \in 1..Len(population) :
    /\ IsPermutation(population[k], Len(tps_full))
    /\ LET names == RouteNames(population[k], route_points)
       IN  /\ Len(names) = Len(tps_full) + 2
           /\ names[1] = DEPOT_NAME
           /\ names[Len(names)] = TPA_NAME
           /\ \A s \in 1..Len(tps_full) :
                Cardinality({ i \in 1..Len(names) : names[i] = tps_full[s] }) = 1

\* a second generation over three stops holding a child that differs from
\* the elites
C1_Witness ==
  /\ pc = "elitism"
  /\ generation >= 1
  /\ Len(tps_full) = 3
  /\ population[POPULATION_SIZE] \notin { population[k] : k \in 1..ELITISM_COUNT }

\* C2 (as claimed): with exactly one full stop S the driver never raises and
\* returns depot -> S -> disposal site, the totals being the sum of the two
\* segments.
C2_SingleStop ==
  (Cardinality(FullIds) = 1 /\ ValidStops) =>
     /\ pc # "raised"
     /\ pc = "returned" =>
          LET names == <<DEPOT_NAME>> \o tps_full \o <<TPA_NAME>>
          IN  /\ Len(result[1]) = 2
              /\ \A i \in 1..2 : result[1][i].from = names[i] /\ result[1][i].to = names[i + 1]
              /\ result[2] = Round(Leg(names[1], names[2]) + Leg(names[2], names[3]), 100)

\* C3: with no entry flagged full the driver returns ([], 0, 0) and never
\* builds a population or runs a generation.
C3_EmptyInput ==
  FullIds = {} =>
     /\ pc \in {"start", "returned"}
     /\ population = <<>>
     /\ fitness_scores = <<>>
     /\ min_evaluated = INF
     /\ generation = 0
     /\ pc = "returned" => result = << <<>>, 0, 0 >>

C3_Witness ==
  /\ pc = "returned"
  /\ FullIds = {}
  /\ Len(tps_status) >= 2

\* C4 (as claimed): a stop flagged full that is not a key of the location
\* table makes the driver raise before any generation; it never returns.
C4_InvalidStopFails ==
  (\E id \in FullIds : id \notin DOMAIN LOCATIONS) =>
     /\ pc \in {"start", "raised"}
     /\ population = <<>>

\* C5 (as claimed): with exactly two full stops and no traffic the returned
\* route is the interior ordering of lower total distance, on every run.
C5_TwoStopsOptimal ==
  (pc = "returned" /\ Cardinality(FullIds) = 2 /\ ValidStops /\ ~consider_traffic) =>
     \E o \in Perms(2) :
        /\ \A o2 \in Perms(2) : TotalMetres(StopNames(o)) <= TotalMetres(StopNames(o2))
        /\ result[1] = LightSegments(StopNames(o))

\* C5 (amended): the returned route is one of the two interior orderings,
\* with exactly its segments, and its rounded total distance is the lowest
\* of any individual evaluated during the run.
C5_TwoStopsBestEvaluated ==
  (pc = "returned" /\ Cardinality(FullIds) = 2 /\ ValidStops /\ ~consider_traffic) =>
     /\ best_route \in Perms(2)
     /\ result[1] = LightSegments(StopNames(best_route))
     /\ result[2] = Round(TotalMetres(StopNames(best_route)), 100)
     /\ result[2] = min_evaluated

\* the second ordering was returned, being the better one
C5_Witness ==
  /\ pc = "returned"
  /\ Cardinality(FullIds) = 2
  /\ ValidStops
  /\ ~consider_traffic
  /\ result[1] = LightSegments(StopNames(<<2, 1>>))
  /\ result[2] < Round(TotalMetres(StopNames(<<1, 2>>)), 100)

\* fitness of an individual, from the evaluator
FitnessOf(route) ==
  Fitness(calculate_route_metrics(RouteNames(route, route_points),
                                  consider_traffic, traffic_conditions)[2])

\* C6: the best fitness of generation g+1 is at least the best fitness of
\* generation g, and the elitism step puts the fittest individual of a
\* generation first into the next population.
C6_ElitismMonotone ==
  /\ (pc = "elitism" /\ generation >= 1) =>
        MaxOf({ fitness_scores[i] : i \in 1..Len(fitness_scores) }) >= prev_best_fitness
  /\ (pc = "fill" /\ Len(next_gen) <= ELITISM_COUNT) =>
        /\ Len(next_gen) >= 1
        /\ FitnessOf(next_gen[1]) = MaxOf({ fitness_scores[i] : i \in 1..Len(fitness_scores) })

\* a generation whose best fitness is strictly above the one before
C6_Witness ==
  /\ pc = "elitism"
  /\ generation >= 1
  /\ MaxOf({ fitness_scores[i] : i \in 1..Len(fitness_scores) }) > prev_best_fitness

\* C7: the child of the crossover step over two permutations of 1..n is a
\* permutation of 1..n.
C7_CrossoverClosure ==
  pc = "mutation" => IsPermutation(child, Len(parent1))

\* a child over four genes that is neither parent
C7_Witness ==
  /\ pc = "mutation"
  /\ Len(parent1) = 4
  /\ child # parent1
  /\ child # parent2

C9_BestRecord ==
  /\ [](/\ best_distance = min_evaluated
        /\ best_route = None => best_distance = INF
        /\ best_route # None =>
             /\ best_distance = Round(TotalMetres(StopNames(best_route)), 100)
             /\ <<best_segments, best_distance, best_duration>> =
                  calculate_route_metrics(StopNames(best_route), consider_traffic,
                                          traffic_conditions)
        /\ (pc = "returned" /\ best_route # None) =>
             result = <<best_segments, best_distance, best_duration>>)
  /\ [][/\ best_distance' <= best_distance
        /\ best' # best => best_distance' < best_distance]_vars

\* the record kept from generation 0 was replaced in a later generation
C9_Witness ==
  /\ pc = "elitism"
  /\ generation >= 1
  /\ Len(tps_full) = 3
  /\ Fitness(best_distance) > prev_best_fitness

\* C10 (as claimed): for every non-empty set of full stops the driver ends by
\* returning the best-found record after exactly GENERATIONS generations.
C10_Terminates ==
  (FullIds # {} /\ ValidStops) =>
     /\ pc # "raised"
     /\ pc = "returned" =>
          /\ generation = GENERATIONS
          /\ Len(population) = POPULATION_SIZE
          /\ result = <<best_segments, best_distance, best_duration>>

\* the references of the individuals of the current population, of the
\* entries of next_gen
PopulationRefs == RefSet(heap[population_ref])

NextGenRefs == RefSet(heap[next_gen_ref])

\* no reference twice in a list of references
NoSharedList(r) == \A i \in 1..Len(r) : \A j \in 1..Len(r) : i # j => r[i] # r[j]

\* the rounded total distance of the route the object a holds
RefDistance(a) ==
  calculate_route_metrics(RouteNames(heap[a], route_points),
                          consider_traffic, traffic_conditions)[2]

\* the positions of one generation at which next_gen is being built
Building == pc \in {"select", "crossover", "mutation", "append"}

\* C11: within one generation, building the next population changes neither
\* the current population nor the best-found record.  While next_gen is
\* built it is a list of its own, its entries are objects of their own (no
\* two entries are the same object, none is an individual of the current
\* population or the object best_route refers to), the parents are copies
\* and the child is a fresh object until it is appended, every fitness score
\* still belongs to the individual at its index, and the object best_route
\* refers to still has the distance best_distance.  No step of a generation
\* writes into the list population refers to, into an individual of it, or
\* into the object best_route refers to.
C11_NoAliasing ==
  /\ [](/\ pc \notin {"raised"} => NoSharedList(heap[population_ref])
        /\ Building =>
             /\ next_gen_ref # population_ref
             /\ NoSharedList(heap[next_gen_ref])
             /\ NextGenRefs \cap (PopulationRefs \cup {best_route_ref}) = {}
             /\ Len(fitness_scores) = Len(heap[population_ref])
             /\ \A i \in 1..Len(fitness_scores) :
                  fitness_scores[i] = Fitness(RefDistance(heap[population_ref][i]))
        /\ pc \in {"crossover", "mutation", "append"} =>
             /\ parent1_ref # parent2_ref
             /\ {parent1_ref, parent2_ref}
                  \cap (PopulationRefs \cup NextGenRefs \cup {best_route_ref}) = {}
        /\ pc \in {"mutation", "append"} =>
             child_ref \notin PopulationRefs \cup NextGenRefs
                                \cup {parent1_ref, parent2_ref, best_route_ref}
        /\ best_route_ref # NoRef => RefDistance(best_route_ref) = best_distance)
  /\ [][/\ generation' = generation =>
             /\ population_ref' = population_ref
             /\ heap'[population_ref] = heap[population_ref]
             /\ \A a \in PopulationRefs : heap'[a] = heap[a]
        /\ Building => fitness_scores' = fitness_scores
        /\ best_route_ref # NoRef /\ best_route_ref' = best_route_ref =>
             heap'[best_route_ref] = heap[best_route_ref]]_vars

\* a mutated child about to be appended, in a generation whose best_route
\* still refers to an individual of an earlier population
C11_Witness ==
  /\ pc = "append"
  /\ generation >= 1
  /\ Len(heap[next_gen_ref]) >= ELITISM_COUNT
  /\ heap[child_ref] \notin CrossoverChildren(heap[parent1_ref], heap[parent2_ref])
  /\ best_route_ref # NoRef
  /\ best_route_ref \notin PopulationRefs

=============================================================================
